---- MODULE Spec2Model ----
(***************************************************************************)
(* Model of code/grid.py: regularly spaced grids over a geometry.          *)
(*                                                                         *)
(* Coordinates are exact fixed-point numbers: one model unit is 1/Whole of *)
(* a degree, so .1 is Whole/10 units, .05 is Whole/20 and .125 is Whole/8. *)
(* Arithmetic is exact (the binary rounding error of Python floats is not  *)
(* modelled).  A geometry is a finite union of closed axis-parallel        *)
(* rectangles (a box Polygon, an axis-parallel LineString through its      *)
(* segments, a Point); the empty union is the empty geometry.              *)
(***************************************************************************)
EXTENDS Integers, Sequences, FiniteSets

VARIABLES
    geom,        \* argument of the get_cells call: the set of parts of the geometry
    cell_size,   \* argument of the get_cells call
    offset,      \* argument of the get_cells call
    gen,         \* the generator get_cells returned: [state, pos]
    ll_seen,     \* the points get_ll_points has yielded to gen so far, in order
    pass,        \* which iteration over gen the caller is in (1 or 2)
    first,       \* cells the first iteration over gen received, in order
    second,      \* cells the second iteration over gen received, in order
    centroids,   \* result of list(get_centroids(first, round_digits)), or NoValue
    grid         \* a LightningGrid / TopoQuadGrid built from geom, or NoValue

vars == <<geom, cell_size, offset, gen, ll_seen, pass, first, second, centroids, grid>>

NoValue == [kind |-> "None"]

---------------------------------------------------------------------------
(* Bounds of the model *)

\* a call is explored only when its candidate lattice has at most this many points
MaxCandidates == 150
\* ... and yields at most this many cells
MaxCells == 16
\* rectangles of the input family have their corners on multiples of GeomStep ...
GeomStep == 40
\* ... from -GeomStep up to MaxGeomIdx * GeomStep
MaxGeomIdx == 2

---------------------------------------------------------------------------
(* Units *)

\* model units per whole degree: floor() and ceil() round to multiples of it
Whole == 80

\* least and greatest element of a non-empty finite set of numbers
Min(S) == CHOOSE v \in S : \A w \in S : v <= w
Max(S) == CHOOSE v \in S : \A w \in S : v >= w

\* bug: the bounds are not rounded down to a whole unit
floor_identity(v) == v

\* math.floor of a coordinate, in model units
floor(v) == (v \div Whole) * Whole

\* bug: the upper bounds are rounded down like the lower ones
ceil_rounds_down(v) == floor(v)

\* math.ceil of a coordinate, in model units
ceil(v) == -floor(-v)

\* ceiling of a / b for b # 0
CeilDiv(a, b) == IF b > 0 THEN -((-a) \div b) ELSE -(a \div (-b))

---------------------------------------------------------------------------
(* Geometry: shapely's bounds, box and intersects *)

Part(x1, y1, x2, y2) == [x1 |-> x1, y1 |-> y1, x2 |-> x2, y2 |-> y2]

is_empty(g) == g = {}

\* geom.bounds of a non-empty geometry: (minx, miny, maxx, maxy)
bounds(g) ==
    <<Min({p.x1 : p \in g}), Min({p.y1 : p \in g}),
      Max({p.x2 : p \in g}), Max({p.y2 : p \in g})>>

\* shapely.geometry.box(minx, miny, maxx, maxy): the rectangle with these corners
box(x1, y1, x2, y2) == [x1 |-> x1, y1 |-> y1, x2 |-> x2, y2 |-> y2]

Lo(a, b) == IF a <= b THEN a ELSE b
Hi(a, b) == IF a <= b THEN b ELSE a

\* closed rectangles share at least one point
RectsMeet(b, p) ==
    /\ Lo(b.x1, b.x2) <= p.x2 /\ p.x1 <= Hi(b.x1, b.x2)
    /\ Lo(b.y1, b.y2) <= p.y2 /\ p.y1 <= Hi(b.y1, b.y2)

\* bug: boundary contact does not count
intersects_open(bbox, g) ==
    \E p \in g : /\ Lo(bbox.x1, bbox.x2) < p.x2 /\ p.x1 < Hi(bbox.x1, bbox.x2)
                 /\ Lo(bbox.y1, bbox.y2) < p.y2 /\ p.y1 < Hi(bbox.y1, bbox.y2)

\* bbox.intersects(geom): boundary contact counts
intersects(bbox, g) == \E p \in g : RectsMeet(bbox, p)

---------------------------------------------------------------------------
(* numpy.arange and Python's round *)

\* bug: the number of steps is rounded down, losing the last partial step
arange_len_floor(start, stop, step) ==
    IF step > 0
    THEN (IF (stop - start) \div step > 0 THEN (stop - start) \div step ELSE 0)
    ELSE (IF (start - stop) \div (-step) > 0 THEN (start - stop) \div (-step) ELSE 0)

\* number of values of np.arange(start, stop, step), step # 0:
\* ceil((stop - start) / step), and none when that is not positive
arange_len(start, stop, step) ==
    IF CeilDiv(stop - start, step) > 0 THEN CeilDiv(stop - start, step) ELSE 0

\* np.arange(start, stop, step), step # 0: start + i * step for i < length
arange(start, stop, step) ==
    [i \in 1..arange_len(start, stop, step) |-> start + (i - 1) * step]

\* one decimal digit is Whole/10 units, zero digits is Whole units
Quantum(digits) == IF digits = 0 THEN Whole ELSE Whole \div 10

\* round(v, digits): the nearest multiple of the quantum, an exact tie going
\* to the even multiple
round(v, digits) ==
    LET q == Quantum(digits)
        lo == (v \div q) * q
        r == v - lo
    IN  IF 2 * r < q THEN lo
        ELSE IF 2 * r > q THEN lo + q
        ELSE IF (lo \div q) % 2 = 0 THEN lo ELSE lo + q

---------------------------------------------------------------------------
(* The pipeline of grid.py *)

\* bug: the loops are nested the other way round (y outer, x inner)
get_ll_points_y_outer(minx, maxx, miny, maxy, off, size) ==
    LET xs == arange(minx - off, maxx + off, size)
        ys == arange(miny - off, maxy + off, size)
        nx == Len(xs)
    IN  [k \in 1..(nx * Len(ys)) |->
            <<xs[((k - 1) % nx) + 1], ys[((k - 1) \div nx) + 1]>>]

\* get_ll_points: x outer loop, y inner loop, as the sequence of yielded (x, y)
get_ll_points(minx, maxx, miny, maxy, off, size) ==
    LET xs == arange(minx - off, maxx + off, size)
        ys == arange(miny - off, maxy + off, size)
        ny == Len(ys)
    IN  [k \in 1..(Len(xs) * ny) |->
            <<xs[((k - 1) \div ny) + 1], ys[((k - 1) % ny) + 1]>>]

\* bug: the upper-right corner is the lower-left point itself
cell_box_degenerate(ll_point, size) ==
    box(ll_point[1], ll_point[2], ll_point[1], ll_point[2])

\* the box get_grid_intersections builds for one lower-left point
cell_box(ll_point, size) ==
    box(ll_point[1], ll_point[2], ll_point[1] + size, ll_point[2] + size)

\* get_grid_intersections run to exhaustion: the boxes it yields, in order
get_grid_intersections(g, ll_points, size) ==
    LET Keep(bbox) == intersects(bbox, g)
    IN  SelectSeq([k \in 1..Len(ll_points) |-> cell_box(ll_points[k], size)], Keep)

\* the whole-degree bounding box get_cells computes: (minx, miny, maxx, maxy)
whole_bounds(g) ==
    <<floor(bounds(g)[1]), floor(bounds(g)[2]),
      ceil(bounds(g)[3]), ceil(bounds(g)[4])>>

\* the ll_points get_cells hands to get_grid_intersections (g not empty, size # 0)
ll_points_of(g, size, off) ==
    LET b == whole_bounds(g)
    IN  get_ll_points(b[1], b[3], b[2], b[4], off, size)

\* list(get_cells(g, size, off)) for a non-empty geometry and size # 0
get_cells(g, size, off) ==
    get_grid_intersections(g, ll_points_of(g, size, off), size)

\* cell.centroid.coords[0] of a box
centroid(cell) == <<(cell.x1 + cell.x2) \div 2, (cell.y1 + cell.y2) \div 2>>

\* bug: the centerpoint is rounded down instead of to the nearest
get_centroids_truncating(cells, round_digits) ==
    [i \in 1..Len(cells) |->
        IF round_digits = <<>> THEN centroid(cells[i])
        ELSE <<(centroid(cells[i])[1] \div Quantum(round_digits[1]))
                    * Quantum(round_digits[1]),
               (centroid(cells[i])[2] \div Quantum(round_digits[1]))
                    * Quantum(round_digits[1])>>]

\* list(get_centroids(cells, round_digits)); round_digits is <<>> for None
\* and <<d>> for d digits
get_centroids(cells, round_digits) ==
    [i \in 1..Len(cells) |->
        IF round_digits = <<>> THEN centroid(cells[i])
        ELSE <<round(centroid(cells[i])[1], round_digits[1]),
               round(centroid(cells[i])[2], round_digits[1])>>]

\* the fixed parameters of the two grid classes
LightningCellSize == Whole \div 10
\* bug: the offset is a whole cell (.1) instead of half a cell
LightningOffset_whole_cell == Whole \div 10

LightningOffset == Whole \div 20
LightningRoundDigits == <<1>>
TopoQuadCellSize == Whole \div 8
TopoQuadOffset == 0

---------------------------------------------------------------------------
(* Inputs *)

GeomCoords == {i * GeomStep : i \in -1..MaxGeomIdx}

\* box polygons, axis-parallel lines and points on the input lattice
LatticeGeoms ==
    {{Part(x1, y1, x2, y2)} :
        <<x1, y1, x2, y2>> \in
            {c \in GeomCoords \X GeomCoords \X GeomCoords \X GeomCoords :
                c[1] <= c[3] /\ c[2] <= c[4]}}

\* the square [0,2]x[0,2]
Square02 == {Part(0, 0, 2 * Whole, 2 * Whole)}
\* the box (40.0, -121.0, 40.3, -120.7)
ScenarioBox ==
    {Part(40 * Whole, -121 * Whole,
          40 * Whole + 3 * (Whole \div 10), -121 * Whole + 3 * (Whole \div 10))}
\* a LineString (.5,.5) -> (.5,1.5) -> (1.5,1.5)
LShape ==
    {Part(Whole \div 2, Whole \div 2, Whole \div 2, 3 * (Whole \div 2)),
     Part(Whole \div 2, 3 * (Whole \div 2), 3 * (Whole \div 2), 3 * (Whole \div 2))}
\* the points (3.5, 3.5) and (3, 3)
PointMid == {Part(7 * (Whole \div 2), 7 * (Whole \div 2),
                  7 * (Whole \div 2), 7 * (Whole \div 2))}
PointWhole == {Part(3 * Whole, 3 * Whole, 3 * Whole, 3 * Whole)}
\* a box whose sides lie on the lines .05 and .15
FineBox == {Part(Whole \div 20, Whole \div 20, 3 * (Whole \div 20), 3 * (Whole \div 20))}
EmptyGeom == {}

Geoms ==
    LatticeGeoms \cup
        {Square02, ScenarioBox, LShape, PointMid, PointWhole, FineBox, EmptyGeom}

\* cell sizes: 1, .125, .1 (the documented ones), 2 and .3, and the
\* non-positive 0 and -1
CellSizes ==
    {Whole, Whole \div 8, Whole \div 10, 2 * Whole, 3 * (Whole \div 10), 0, -Whole}

\* offsets tried with a cell size: none, half a cell, a whole cell
Offsets(size) == {0, size \div 2, size}

RoundDigits == {<<>>, <<1>>}

\* number of points of the candidate lattice of a call
NumCandidates(g, size, off) ==
    IF is_empty(g) \/ size = 0 THEN 0
    ELSE LET b == whole_bounds(g)
         IN  arange_len(b[1] - off, b[3] + off, size)
                * arange_len(b[2] - off, b[4] + off, size)

\* the calls the model explores
Explored(g, size, off) ==
    /\ NumCandidates(g, size, off) <= MaxCandidates
    /\ NumCandidates(g, size, off) > 0 => Len(get_cells(g, size, off)) <= MaxCells

---------------------------------------------------------------------------
(* State machine: a caller of grid.py *)

\* the generator object get_cells returns: suspended before candidate pos
Gen(state, pos) == [state |-> state, pos |-> pos]

\* get_cells(g, size, off): reads geom.bounds (which fails for an empty
\* geometry), rounds them and returns the generator without running it
Init ==
    /\ geom \in Geoms
    /\ cell_size \in CellSizes
    /\ offset \in Offsets(cell_size)
    /\ Explored(geom, cell_size, offset)
    /\ gen = IF is_empty(geom) THEN Gen("call_raised", 0) ELSE Gen("suspended", 1)
    /\ ll_seen = <<>>
    /\ pass = 1
    /\ first = <<>>
    /\ second = <<>>
    /\ centroids = NoValue
    /\ grid = NoValue

\* indexes of the candidates at or after pos whose box intersects geom
Hits(pos) ==
    LET pts == ll_points_of(geom, cell_size, offset)
    IN  {k \in pos..Len(pts) : intersects(cell_box(pts[k], cell_size), geom)}

\* next(gen): runs get_grid_intersections to its next yield, to its end, or to
\* the error np.arange raises for a zero step; a finished generator stays so
NextCell ==
    /\ gen.state \in {"suspended", "done", "raised"}
    /\ IF gen.state # "suspended"
       THEN UNCHANGED <<gen, ll_seen, first, second>>
       ELSE IF cell_size = 0
       THEN /\ gen' = Gen("raised", gen.pos)
            /\ UNCHANGED <<ll_seen, first, second>>
       ELSE LET pts == ll_points_of(geom, cell_size, offset)
            IN  IF Hits(gen.pos) = {}
                THEN /\ gen' = Gen("done", Len(pts) + 1)
                     /\ ll_seen' = pts
                     /\ UNCHANGED <<first, second>>
                ELSE LET k == Min(Hits(gen.pos))
                     IN  /\ gen' = Gen("suspended", k + 1)
                         /\ ll_seen' = SubSeq(pts, 1, k)
                         /\ IF pass = 1
                            THEN /\ first' = Append(first, cell_box(pts[k], cell_size))
                                 /\ UNCHANGED second
                            ELSE /\ second' = Append(second, cell_box(pts[k], cell_size))
                                 /\ UNCHANGED first
    /\ UNCHANGED <<geom, cell_size, offset, pass, centroids, grid>>

\* bug: a second iteration restarts the enumeration from the first candidate
Restart_rewinds ==
    /\ gen.state # "call_raised"
    /\ pass = 1
    /\ pass' = 2
    /\ gen' = Gen("suspended", 1)
    /\ UNCHANGED <<geom, cell_size, offset, ll_seen, first, second, centroids, grid>>

\* the caller starts iterating the same returned value again: iter(gen) is gen
Restart ==
    /\ gen.state # "call_raised"
    /\ pass = 1
    /\ pass' = 2
    /\ UNCHANGED <<geom, cell_size, offset, gen, ll_seen, first, second, centroids, grid>>

\* list(get_centroids(cells, round_digits)) over the cells of a finished
\* first iteration
GetCentroids(round_digits) ==
    /\ gen.state = "done"
    /\ pass = 1
    /\ centroids = NoValue
    /\ centroids' = [kind |-> "List", cells |-> first, round_digits |-> round_digits,
                     out |-> get_centroids(first, round_digits)]
    /\ UNCHANGED <<geom, cell_size, offset, gen, ll_seen, pass, first, second, grid>>

\* LightningGrid(geom): the call in progress is its get_cells(geom, .1, .05);
\* list() runs the generator to its end, then the centroids are listed
NewLightningGrid ==
    /\ cell_size = LightningCellSize
    /\ offset = LightningOffset
    /\ gen = Gen("suspended", 1)
    /\ pass = 1
    /\ first' = get_cells(geom, cell_size, offset)
    /\ gen' = Gen("done", Len(ll_points_of(geom, cell_size, offset)) + 1)
    /\ ll_seen' = ll_points_of(geom, cell_size, offset)
    /\ grid' = [kind |-> "LightningGrid", cells |-> first',
                centroids |-> get_centroids(first', LightningRoundDigits)]
    /\ UNCHANGED <<geom, cell_size, offset, pass, second, centroids>>

\* TopoQuadGrid(geom): the call in progress is its get_cells(geom, .125)
NewTopoQuadGrid ==
    /\ cell_size = TopoQuadCellSize
    /\ offset = TopoQuadOffset
    /\ gen = Gen("suspended", 1)
    /\ pass = 1
    /\ first' = get_cells(geom, cell_size, offset)
    /\ gen' = Gen("done", Len(ll_points_of(geom, cell_size, offset)) + 1)
    /\ ll_seen' = ll_points_of(geom, cell_size, offset)
    /\ grid' = [kind |-> "TopoQuadGrid", cells |-> first']
    /\ UNCHANGED <<geom, cell_size, offset, pass, second, centroids>>

Next ==
    \/ NextCell
    \/ Restart
    \/ \E round_digits \in RoundDigits : GetCentroids(round_digits)
    \/ NewLightningGrid
    \/ NewTopoQuadGrid

Spec == Init /\ [][Next]_vars

---------------------------------------------------------------------------
(* Vocabulary of the properties *)

\* the call's parameters are in the documented domain: cellSize > 0 and
\* offset in [0, cellSize)
ValidConfig == cell_size > 0 /\ 0 <= offset /\ offset < cell_size

\* a call on a non-empty geometry with parameters in the domain
ValidCall == ~is_empty(geom) /\ ValidConfig

\* the generator ran to its end without an error
Exhausted == gen.state = "done"

\* the extended box has no extent on some axis and there is no offset margin
Collapsed ==
    /\ offset = 0
    /\ \/ floor(bounds(geom)[1]) = ceil(bounds(geom)[3])
       \/ floor(bounds(geom)[2]) = ceil(bounds(geom)[4])

\* the values of a set step by size from lo or below up to hi or beyond
CoversRange(vals, lo, hi, size) ==
    /\ vals # {}
    /\ \A v \in vals : v = Min(vals) \/ (v - size) \in vals
    /\ Min(vals) <= lo
    /\ Max(vals) + size >= hi

XValues == {ll_seen[k][1] : k \in 1..Len(ll_seen)}
YValues == {ll_seen[k][2] : k \in 1..Len(ll_seen)}

CoversX ==
    CoversRange(XValues, floor(bounds(geom)[1]) - offset,
                ceil(bounds(geom)[3]) + offset, cell_size)
CoversY ==
    CoversRange(YValues, floor(bounds(geom)[2]) - offset,
                ceil(bounds(geom)[4]) + offset, cell_size)

---------------------------------------------------------------------------
(* C1 *)

\* C1 as stated: for every bounding box with minx <= maxx, cellSize > 0 and
\* offset in [0, cellSize), the x-values (and the y-values) get_ll_points has
\* produced when it is exhausted step by exactly cellSize, start at or below
\* floor(min) - offset and reach ceil(max) + offset.
C1_CoversEveryBox == (ValidCall /\ Exhausted) => (CoversX /\ CoversY)

\* C1 amended: the coverage holds whenever the extended box is not collapsed
\* (floor(min) < ceil(max) on both axes, or offset > 0); for a collapsed box
\* get_ll_points yields no point at all.
C1_CoversUnlessCollapsed ==
    (ValidCall /\ Exhausted) =>
        IF Collapsed THEN ll_seen = <<>> ELSE CoversX /\ CoversY

\* a call whose last cell overshoots the extended box has been enumerated
C1_Witness ==
    /\ ValidCall /\ Exhausted /\ ~Collapsed
    /\ Max(XValues) + cell_size > ceil(bounds(geom)[3]) + offset
    /\ Cardinality(XValues) >= 3

---------------------------------------------------------------------------
(* C2 *)

\* how far beyond the enumerated range, in cells, the grid is examined
GridMargin == 2

\* the cells of the call's grid near the geometry: lower-left corners
\* floor(min) - offset + k * cellSize on each axis, k an integer
GridCells ==
    LET b == whole_bounds(geom)
        nx == arange_len(b[1] - offset, b[3] + offset, cell_size)
        ny == arange_len(b[2] - offset, b[4] + offset, cell_size)
    IN  {cell_box(<<b[1] - offset + kx * cell_size, b[2] - offset + ky * cell_size>>,
                  cell_size) :
            kx \in (-GridMargin)..(nx + GridMargin),
            ky \in (-GridMargin)..(ny + GridMargin)}

Yielded == {first[i] : i \in 1..Len(first)} \cup {second[i] : i \in 1..Len(second)}

\* the open interior of a cell meets the geometry
InteriorMeets(c, g) ==
    \E p \in g : /\ c.x1 < p.x2 /\ p.x1 < c.x2
                 /\ c.y1 < p.y2 /\ p.y1 < c.y2

\* the lower-left corner of a cell lies in the enumerated range
\* [floor(min) - offset, ceil(max) + offset) on both axes
InEnumeratedRange(c) ==
    LET b == whole_bounds(geom)
    IN  /\ b[1] - offset <= c.x1 /\ c.x1 < b[3] + offset
        /\ b[2] - offset <= c.y1 /\ c.y1 < b[4] + offset

\* C2 as stated: get_cells returns every cell of the grid that intersects
\* geom, a cell sharing only an edge or a corner with geom included.
C2_EveryTouchingCell ==
    (ValidCall /\ Exhausted) =>
        \A c \in GridCells : intersects(c, geom) => c \in Yielded

\* C2 amended: get_cells returns every grid cell that intersects geom and has
\* its lower-left corner in [floor(min) - offset, ceil(max) + offset) on both
\* axes, which includes every grid cell whose interior meets geom; a grid
\* cell outside that range that only touches geom is not returned.
C2_EveryCellInRange ==
    (ValidCall /\ Exhausted) =>
        \A c \in GridCells :
            /\ (intersects(c, geom) /\ InEnumeratedRange(c)) => c \in Yielded
            /\ InteriorMeets(c, geom) => c \in Yielded
            /\ c \in Yielded => (intersects(c, geom) /\ InEnumeratedRange(c))

\* a finished call that returned a cell touching geom only along an edge and
\* left out a candidate that does not intersect it
C2_Witness ==
    /\ ValidCall /\ Exhausted
    /\ \E c \in Yielded : ~InteriorMeets(c, geom)
    /\ \E c \in GridCells : InEnumeratedRange(c) /\ c \notin Yielded

---------------------------------------------------------------------------
(* C3 *)

\* C3 as stated: when cellSize <= 0 or offset is outside [0, cellSize) the
\* call signals an error before enumerating, so the generator never finishes
\* normally and never hands out a point or a cell.
C3_ConfigErrorBeforeEnumeration ==
    (~is_empty(geom) /\ ~ValidConfig) =>
        /\ gen.state # "done"
        /\ ll_seen = <<>>
        /\ first = <<>> /\ second = <<>>

---------------------------------------------------------------------------
(* C4 *)

\* the bounding box of a non-empty geometry has zero area
ZeroArea(g) == bounds(g)[1] = bounds(g)[3] \/ bounds(g)[2] = bounds(g)[4]

\* the call has ended: get_cells raised, or its generator finished or raised
Ended == gen.state \in {"call_raised", "done", "raised"}

\* C4 as stated: for a geometry that is empty or whose bounding box has zero
\* area, get_cells yields no cell, get_centroids over it yields no
\* centerpoint, and no error is raised.
C4_DegenerateYieldsNothing ==
    (ValidConfig /\ Ended /\ (is_empty(geom) \/ ZeroArea(geom))) =>
        /\ gen.state = "done"
        /\ first = <<>> /\ second = <<>>
        /\ centroids # NoValue => centroids.out = <<>>

\* C4 amended: for a non-empty geometry whose bounding box has zero area no
\* error is raised and get_cells yields the candidate cells that intersect
\* it: none only when offset = 0 and floor(min) = ceil(max) on some axis, at
\* least one otherwise; get_centroids yields one centerpoint per cell.  For
\* an empty geometry get_cells raises.
C4_DegenerateYieldsItsCells ==
    /\ (ValidConfig /\ is_empty(geom)) => gen.state = "call_raised"
    /\ (ValidCall /\ ZeroArea(geom)) =>
        /\ gen.state \in {"suspended", "done"}
        /\ Exhausted => ((Yielded = {}) <=> Collapsed)
        /\ centroids # NoValue => Len(centroids.out) = Len(first)

\* a point strictly inside a cell has yielded that cell and its centerpoint
C4_Witness ==
    /\ ValidCall /\ ZeroArea(geom) /\ Exhausted
    /\ Len(first) = 1
    /\ InteriorMeets(first[1], geom)
    /\ centroids # NoValue /\ Len(centroids.out) = 1

---------------------------------------------------------------------------
(* C5 *)

LexLess(p, q) == p[1] < q[1] \/ (p[1] = q[1] /\ p[2] < q[2])

\* lower-left corners of the cells handed out so far, in the order received
YieldedCorners ==
    [i \in 1..(Len(first) + Len(second)) |->
        IF i <= Len(first) THEN <<first[i].x1, first[i].y1>>
        ELSE <<second[i - Len(first)].x1, second[i - Len(first)].y1>>]

\* each corner is less than the next (the order is transitive)
StrictlyIncreasing(corners) ==
    \A i \in 1..(Len(corners) - 1) : LexLess(corners[i], corners[i + 1])

\* C5: for parameters in the domain the cells are yielded in strictly
\* increasing lexicographic order of their lower-left corner (x outer, y
\* inner), the candidates visited being the cross product of the x-values
\* and the y-values in that order, so no cell is yielded twice; the square
\* [0,2]x[0,2] with cellSize 1 and offset 0 yields exactly the cells with
\* origins (0,0), (0,1), (1,0), (1,1) in that order.
C5_LexicographicOrder ==
    ValidCall =>
        /\ StrictlyIncreasing(YieldedCorners)
        /\ StrictlyIncreasing(ll_seen)
        /\ Exhausted =>
            {ll_seen[k] : k \in 1..Len(ll_seen)} = XValues \X YValues
        /\ (Exhausted /\ pass = 1 /\ geom = Square02 /\ cell_size = Whole /\ offset = 0) =>
            first = <<box(0, 0, Whole, Whole), box(0, Whole, Whole, 2 * Whole),
                      box(Whole, 0, 2 * Whole, Whole),
                      box(Whole, Whole, 2 * Whole, 2 * Whole)>>

\* the square [0,2]x[0,2] with cellSize 1 has been enumerated to the end
C5_Witness ==
    /\ geom = Square02 /\ cell_size = Whole /\ offset = 0
    /\ Exhausted /\ pass = 1 /\ Len(first) = 4

---------------------------------------------------------------------------
(* C6 *)

IsPrefix(s, t) == Len(s) <= Len(t) /\ \A i \in 1..Len(s) : s[i] = t[i]

\* C6 as stated: iterating the value get_cells returned a second time, after
\* it was fully or partly consumed, yields the same sequence of cells as the
\* first iteration of it does.
C6_Restartable ==
    (ValidCall /\ pass = 2 /\ Exhausted) =>
        second = get_cells(geom, cell_size, offset)

\* C6 amended: the value get_cells returns is a one-pass generator.  A second
\* iteration continues where the first stopped: the cells of the first
\* iteration followed by those of the second are always a prefix of the
\* call's cell sequence and are the whole of it once the generator is
\* exhausted, so a second iteration after a complete first one yields nothing.
C6_SinglePass ==
    ValidCall =>
        /\ IsPrefix(first \o second, get_cells(geom, cell_size, offset))
        /\ Exhausted => first \o second = get_cells(geom, cell_size, offset)
        /\ (pass = 2 /\ first = get_cells(geom, cell_size, offset)) => second = <<>>

\* a second iteration, begun after a partly consumed first one, has ended
\* having received only the remaining cells
C6_Witness ==
    /\ ValidCall /\ pass = 2 /\ Exhausted
    /\ first # <<>> /\ second # <<>>
    /\ Len(second) < Len(get_cells(geom, cell_size, offset))

---------------------------------------------------------------------------
(* C7 *)

\* the centre of a cell from its lower-left corner and the side of the call
CentreOf(cell) == <<cell.x1 + cell_size \div 2, cell.y1 + cell_size \div 2>>

\* v is exact rounded to the given digits: a multiple of the quantum nearest to it
IsRounded(v, exact, round_digits) ==
    IF round_digits = <<>> THEN v = exact
    ELSE /\ v % Quantum(round_digits[1]) = 0
         /\ 2 * (v - exact) <= Quantum(round_digits[1])
         /\ 2 * (exact - v) <= Quantum(round_digits[1])

\* out holds one centerpoint per cell, the i-th being that of the i-th cell
Aligned(cells, out, round_digits) ==
    /\ Len(out) = Len(cells)
    /\ \A i \in 1..Len(cells) :
        /\ IsRounded(out[i][1], CentreOf(cells[i])[1], round_digits)
        /\ IsRounded(out[i][2], CentreOf(cells[i])[2], round_digits)

\* C7: get_centroids yields exactly one centerpoint per input cell, in the
\* input order, the i-th being (lowerLeft.x + cellSize/2, lowerLeft.y +
\* cellSize/2) of the i-th cell, rounded when round_digits is given; the
\* centroids and the cells of a LightningGrid have the same length and are
\* index-aligned.
C7_OneCentroidPerCell ==
    /\ centroids # NoValue =>
        /\ centroids.cells = first
        /\ Aligned(centroids.cells, centroids.out, centroids.round_digits)
    /\ grid.kind = "LightningGrid" =>
        /\ grid.cells = first
        /\ Aligned(grid.cells, grid.centroids, <<1>>)

\* centerpoints of several cells have been listed, rounded and unrounded,
\* some of them changed by the rounding
C7_Witness ==
    /\ centroids # NoValue /\ Len(centroids.out) >= 4
    /\ centroids.round_digits = <<1>>
    /\ \E i \in 1..Len(first) : centroids.out[i] # CentreOf(first[i])

---------------------------------------------------------------------------
(* C8 *)

\* C8: in a LightningGrid (cellSize .1, offset .05, one digit) every
\* candidate lower-left coordinate is a multiple of .1 plus .05 and every
\* centerpoint is its cell's lower-left corner plus .05 on each axis, a
\* multiple of .1; the cell with lower-left (40.05, -121.05) has the
\* centerpoint (40.1, -121.0).
C8_FineOffsetGrid ==
    grid.kind = "LightningGrid" =>
        /\ \A k \in 1..Len(ll_seen) :
            /\ (ll_seen[k][1] - Whole \div 20) % (Whole \div 10) = 0
            /\ (ll_seen[k][2] - Whole \div 20) % (Whole \div 10) = 0
        /\ Len(grid.centroids) = Len(grid.cells)
        /\ \A i \in 1..Len(grid.cells) :
            /\ grid.centroids[i] =
                <<grid.cells[i].x1 + Whole \div 20, grid.cells[i].y1 + Whole \div 20>>
            /\ grid.centroids[i][1] % (Whole \div 10) = 0
            /\ grid.centroids[i][2] % (Whole \div 10) = 0
            /\ (grid.cells[i].x1 = 40 * Whole + Whole \div 20
                    /\ grid.cells[i].y1 = -121 * Whole - Whole \div 20) =>
                grid.centroids[i] = <<40 * Whole + Whole \div 10, -121 * Whole>>

\* the LightningGrid of the box (40.0, -121.0, 40.3, -120.7) holds the cell
\* with lower-left (40.05, -121.05)
C8_Witness ==
    /\ grid.kind = "LightningGrid" /\ geom = ScenarioBox
    /\ \E i \in 1..Len(grid.cells) :
        /\ grid.cells[i].x1 = 40 * Whole + Whole \div 20
        /\ grid.cells[i].y1 = -121 * Whole - Whole \div 20
        /\ grid.centroids[i] = <<40 * Whole + Whole \div 10, -121 * Whole>>

---------------------------------------------------------------------------
(* C9 *)

\* two cells are the same cell or their open interiors share no point
SameOrDisjoint(c, d) ==
    \/ c = d
    \/ c.x2 <= d.x1 \/ d.x2 <= c.x1
    \/ c.y2 <= d.y1 \/ d.y2 <= c.y1

\* the cells get_cells returns for the other geometries, same parameters
CellsOfOtherGeometries ==
    UNION {LET cells == get_cells(g, cell_size, offset)
           IN  {cells[i] : i \in 1..Len(cells)} :
              g \in {h \in Geoms \ {geom} :
                        ~is_empty(h) /\ Explored(h, cell_size, offset)}}

\* every lower-left coordinate produced lies on the grid through the origin
\* shifted by the offset; checked against the other geometries once the
\* first iteration is complete
OnCanonicalGrid ==
    /\ \A c \in Yielded :
        /\ (c.x1 + offset) % cell_size = 0
        /\ (c.y1 + offset) % cell_size = 0
    /\ (Exhausted /\ pass = 1 /\ centroids = NoValue /\ grid = NoValue) =>
        \A d \in CellsOfOtherGeometries : \A c \in Yielded : SameOrDisjoint(c, d)

\* C9 as stated: for every cellSize > 0 and offset in [0, cellSize) every
\* lower-left coordinate x produced satisfies that x + offset is an integer
\* multiple of cellSize, so cells produced for two geometries are identical
\* or have disjoint interiors.
C9_CanonicalGridAnyCellSize == ValidCall => OnCanonicalGrid

\* C9 amended: the same, for every cellSize > 0 of which the whole unit is an
\* integer multiple (1, .125, .1, ...); for another cellSize the grid starts
\* at floor(min) of each geometry and the grids of two geometries need not
\* coincide.
C9_CanonicalGridDividingWhole ==
    (ValidCall /\ Whole % cell_size = 0) => OnCanonicalGrid

\* cells have been produced away from the origin, on a grid with an offset,
\* and one of them is also a cell of another geometry
C9_Witness ==
    /\ ValidCall /\ Whole % cell_size = 0 /\ offset > 0
    /\ Exhausted /\ pass = 1 /\ centroids = NoValue /\ grid = NoValue
    /\ floor(bounds(geom)[1]) # 0
    /\ \E c \in Yielded : c \in CellsOfOtherGeometries

---------------------------------------------------------------------------
(* C10 *)

\* the given indexes of a sequence in increasing order
RECURSIVE Ascending(_)
Ascending(idx) ==
    IF idx = {} THEN <<>> ELSE <<Min(idx)>> \o Ascending(idx \ {Min(idx)})

\* the box from (x, y) to (x + cellSize, y + cellSize) shares a point with geom
BoxMeetsGeom(x, y) ==
    \E p \in geom : /\ x <= p.x2 /\ p.x1 <= x + cell_size
                    /\ y <= p.y2 /\ p.y1 <= y + cell_size

\* the candidates get_grid_intersections has received whose box intersects geom
KeptIndexes == {k \in 1..Len(ll_seen) : BoxMeetsGeom(ll_seen[k][1], ll_seen[k][2])}

\* the cells handed out are the boxes of the kept candidates, in candidate order
IsFilterOfCandidates ==
    LET kept == Ascending(KeptIndexes)
        out == first \o second
    IN  /\ Len(out) = Len(kept)
        /\ \A i \in 1..Len(out) :
            out[i] = [x1 |-> ll_seen[kept[i]][1],
                      y1 |-> ll_seen[kept[i]][2],
                      x2 |-> ll_seen[kept[i]][1] + cell_size,
                      y2 |-> ll_seen[kept[i]][2] + cell_size]

\* C10: get_grid_intersections is a pure filter: its output is exactly the
\* subsequence of the candidates, in candidate order, whose box from (x, y)
\* to (x + cellSize, y + cellSize) intersects the geometry, a candidate being
\* kept if and only if the test is true, and neither the geometry nor the
\* candidate values are modified.
C10_PureFilter ==
    /\ [](ValidCall => IsFilterOfCandidates)
    /\ [][geom' = geom /\ IsPrefix(ll_seen, ll_seen')]_vars

\* a finished call in which the filter kept some candidates and dropped others
C10_Witness ==
    /\ ValidCall /\ Exhausted
    /\ KeptIndexes # {}
    /\ Cardinality(KeptIndexes) < Len(ll_seen)
    /\ Len(first \o second) = Cardinality(KeptIndexes)

====
